---- MODULE Spec2Model ----
(***************************************************************************)
(* The `doit graph` command (src/doit/cmd_graph.py): Graph._execute builds *)
(* the index of pending generator subtasks, walks the task graph breadth   *)
(* first from the selected tasks over task_dep and setup edges, and        *)
(* describes the tasks it reached as a list of entries.                    *)
(*                                                                         *)
(* A task name is a Python str, modelled as the tuple of its code points,  *)
(* so that str.split(':', 1)[0] and the lexicographic order of sorted()    *)
(* are computed and not assumed.                                           *)
(***************************************************************************)
EXTENDS Integers, Sequences, FiniteSets, TLC

\* ---------------------------------------------------------------- bounds
\* largest number of names authored in one run: the selected root names plus
\* the dependency names of the whole task list
MaxSize == 3

\* largest number of entries handed to _print_text on its own, and largest
\* number of dependency names in them
MaxEntries == 2
MaxTextDeps == 4

\* ----------------------------------------------------------------- names
\* the separator of name.split(':', 1)
Colon == 58

\* "a", "a:b", "c", "c.d"
nA  == <<97>>
nAB == <<97, Colon, 98>>
nC  == <<99>>
nCD == <<99, 46, 100>>

Names == {nA, nAB, nC, nCD}

\* Task.subtask_of of a task no generator produced (None is falsy, as is '')
NoParent == <<>>

\* the value of dict.get for a missing key
None == [none |-> TRUE]

Kinds == {"task_dep", "setup", "calc_dep"}

\* ------------------------------------------------------- pure operators
RECURSIVE Basename(_)
\* name.split(':', 1)[0]: the part of name before its first ':'
Basename(name) ==
    IF name = <<>> THEN <<>>
    ELSE IF Head(name) = Colon THEN <<>>
    ELSE <<Head(name)>> \o Basename(Tail(name))

RECURSIVE StrLess(_, _)
\* s < t on Python str: lexicographic by code point, a proper prefix first
StrLess(s, t) ==
    IF t = <<>> THEN FALSE
    ELSE IF s = <<>> THEN TRUE
    ELSE IF Head(s) < Head(t) THEN TRUE
    ELSE IF Head(s) > Head(t) THEN FALSE
    ELSE StrLess(Tail(s), Tail(t))

RECURSIVE Insert(_, _)
\* x put into the ascending sequence seq, after the elements equal to it
Insert(x, seq) ==
    IF seq = <<>> THEN <<x>>
    ELSE IF StrLess(x, Head(seq)) THEN <<x>> \o seq
    ELSE <<Head(seq)>> \o Insert(x, Tail(seq))

RECURSIVE Sorted(_)
\* sorted(seq) of a list of names: ascending, duplicates kept
Sorted(seq) ==
    IF seq = <<>> THEN <<>>
    ELSE Insert(seq[Len(seq)], Sorted(SubSeq(seq, 1, Len(seq) - 1)))

RECURSIVE SortedSet(_)
\* sorted(S) of a set of names
SortedSet(S) ==
    IF S = {} THEN <<>>
    ELSE LET m == CHOOSE x \in S : \A y \in S : ~StrLess(y, x)
         IN  <<m>> \o SortedSet(S \ {m})

Range(seq) == {seq[i] : i \in 1..Len(seq)}

\* d1 updated with d2 (dict.update: the values of d2 win)
Update(d1, d2) ==
    [k \in DOMAIN d1 \cup DOMAIN d2 |-> IF k \in DOMAIN d2 THEN d2[k] ELSE d1[k]]

\* d without the keys in ks
Without(d, ks) == [k \in DOMAIN d \ ks |-> d[k]]

\* d.get(k)
Get(d, k) == IF k \in DOMAIN d THEN d[k] ELSE None

\* sequences over S of length at most n
SeqsUpTo(S, n) == UNION {[1..k -> S] : k \in 0..n}

Reverse(seq) == [i \in 1..Len(seq) |-> seq[Len(seq) + 1 - i]]

\* ---------------------------------------------------------------- inputs
\* Task(name, ..., task_dep=[...], setup=[...], calc_dep=[...], subtask_of=...)
\* as the tests build it: one authored dependency name
Edges == [from : Names, kind : Kinds, to : Names]

NameOrder == SortedSet(Names)
KindOrder == <<"task_dep", "setup", "calc_dep">>

\* one dependency list of one task: the lists are numbered task by task
SlotIdx(e) ==
    3 * (CHOOSE i \in 1..Len(NameOrder) : NameOrder[i] = e.from)
      + (CHOOSE i \in 1..3 : KindOrder[i] = e.kind)

\* es lists the authored dependency names of a task list, list by list
\* (the order inside one list is the authored order)
ListByList(es) ==
    \A i \in 1..(Len(es) - 1) : SlotIdx(es[i]) <= SlotIdx(es[i + 1])

RECURSIVE Reach(_, _)
\* the names the task_dep and setup names of es lead to from the names in S
Reach(S, es) ==
    LET more == {es[i].to : i \in {j \in 1..Len(es) :
                      es[j].from \in S /\ es[j].kind # "calc_dep"}}
    IN  IF more \subseteq S THEN S ELSE Reach(S \cup more, es)

\* the names of one dependency list of task n
DepList(es, n, k) ==
    LET Mine(e) == e.from = n /\ e.kind = k
        mine == SelectSeq(es, Mine)
    IN  [i \in 1..Len(mine) |-> mine[i].to]

\* the subtask_of markers a task of that name is given: "a" and "c" are plain
\* tasks, "a:b" and "c.d" are plain or subtasks of the generator "a" or "c"
SubtaskOfChoices(n) ==
    IF n \in {nA, nC} THEN {NoParent} ELSE {NoParent, nA, nC}

\* the sets of task names a task list defines ("c.d" may be left undefined;
\* the task list may be empty)
DefinedSets == {Names, Names \ {nCD}, {}}

Parents ==
    {p \in [Names -> {NoParent, nA, nC}] : \A n \in Names : p[n] \in SubtaskOfChoices(n)}

\* the task list of the names in D with the markers of parent and the
\* dependency names of es
TaskList(D, parent, es) ==
    [n \in D |-> [task_dep    |-> DepList(es, n, "task_dep"),
                  setup_tasks |-> DepList(es, n, "setup"),
                  calc_dep    |-> DepList(es, n, "calc_dep"),
                  subtask_of  |-> parent[n]]]

\* ----------------------------------------------------------------- state
VARIABLES
    task_list,      \* Graph.task_list: name -> Task, as loaded
    sel_tasks,      \* control.selected_tasks: the resolved root names
    def_order,      \* control._def_order
    pc,             \* where _execute is
    tasks,          \* control.tasks, the Registry
    pending,        \* Graph._pending_lazy, the PendingIndex: group -> name -> Task
    queue,          \* the work queue of _collect_nodes
    visited,        \* the visited guard of _collect_nodes
    processed,      \* the result set of _collect_nodes
    graph_entries,  \* the entries _describe_graph built
    output,         \* the output option of _execute, "unread" until line 52
    outstream,      \* the characters written to self.outstream
    retval          \* the values _execute returned: none, or one

vars == <<task_list, sel_tasks, def_order, pc, tasks, pending, queue, visited,
          processed, graph_entries, output, outstream, retval>>

\* the output stream and the return value of _execute
io == <<output, outstream, retval>>

Init ==
    \* a selection and the dependency names authored on the tasks it leads to
    \* (none when nothing is selected), at most MaxSize names in all
    /\ \E sel \in SeqsUpTo(Names, MaxSize) :
        \E k \in 0..(IF sel = <<>> THEN 0 ELSE MaxSize - Len(sel)) :
        \E es \in [1..k -> Edges] :
            /\ ListByList(es)
            /\ {es[i].from : i \in 1..k} \subseteq Reach(Range(sel), es)
            /\ \E D \in DefinedSets, parent \in Parents :
                /\ Range(sel) \cup {es[i].from : i \in 1..k} \subseteq D
                /\ task_list = TaskList(D, parent, es)
                /\ sel_tasks = sel
    /\ def_order = <<>>
    /\ pc = "control"
    /\ tasks = <<>>
    /\ pending = <<>>
    /\ queue = <<>>
    /\ visited = {}
    /\ processed = {}
    /\ graph_entries = <<>>
    /\ output = "unread"
    /\ outstream = <<>>
    /\ retval = <<>>

\* -------------------------------------------------------------- TaskControl
\* Upstream validation: a task_dep naming no task of the list is rejected.
MissingDeps(list) ==
    {d \in UNION {Range(list[n].task_dep) : n \in DOMAIN list} : d \notin DOMAIN list}

\* control._def_order: the names in the order the task list defines them
DefOrder(list) == Reverse(SortedSet(DOMAIN list))

\* TaskControl(task_list) raises InvalidTask; _execute does not catch it
TaskControlRaise ==
    /\ pc = "control"
    /\ MissingDeps(task_list) # {}
    /\ pc' = "raised"
    /\ UNCHANGED <<task_list, sel_tasks, def_order, tasks, pending, queue, visited,
                   processed, graph_entries, io>>

\* control = TaskControl(self.task_list); control.process(self.sel_tasks)
TaskControlProcess ==
    /\ pc = "control"
    /\ MissingDeps(task_list) = {}
    /\ tasks' = task_list
    /\ def_order' = DefOrder(task_list)
    /\ pc' = "prepare"
    /\ UNCHANGED <<task_list, sel_tasks, pending, queue, visited, processed,
                   graph_entries, io>>

\* ------------------------------------------------ lazy materialisation index
\* _prepare_lazy_materialisation grouping the subtasks by the prefix of their
\* name, not by their subtask_of marker
PrepareLazyByPrefix(registry) ==
    LET subs == {n \in DOMAIN registry : registry[n].subtask_of # NoParent}
        groups == {Basename(n) : n \in subs}
    IN  [tasks   |-> Without(registry, subs),
         pending |-> [g \in groups |->
                        [n \in {m \in subs : Basename(m) = g} |-> registry[n]]]]

\* _prepare_lazy_materialisation: the registry without the generator subtasks,
\* and the subtasks grouped by their subtask_of marker
PrepareLazy(registry) ==
    LET subs == {n \in DOMAIN registry : registry[n].subtask_of # NoParent}
        groups == {registry[n].subtask_of : n \in subs}
    IN  [tasks   |-> Without(registry, subs),
         pending |-> [g \in groups |->
                        [n \in {m \in subs : registry[m].subtask_of = g} |-> registry[n]]]]

\* _execute catching the failure of the validation and going on to build the index
PrepareLazyAfterFailure ==
    /\ pc \in {"prepare", "raised"}
    /\ tasks' = PrepareLazy(tasks).tasks
    /\ pending' = PrepareLazy(tasks).pending
    /\ pc' = "start"
    /\ UNCHANGED <<task_list, sel_tasks, def_order, queue, visited, processed,
                   graph_entries, io>>

\* line 48: self._pending_lazy = self._prepare_lazy_materialisation(control)
PrepareLazyMaterialisation ==
    /\ pc = "prepare"
    /\ tasks' = PrepareLazy(tasks).tasks
    /\ pending' = PrepareLazy(tasks).pending
    /\ pc' = "start"
    /\ UNCHANGED <<task_list, sel_tasks, def_order, queue, visited, processed,
                   graph_entries, io>>

\* _lazy_materialise putting only the task called name into the registry, not
\* its whole group
LazyMaterialiseOnlyName(registry, index, name) ==
    LET basename == Basename(name)
        hits == {g \in DOMAIN index : basename \in DOMAIN index[g]}
        Only(group) == [n \in DOMAIN group \cap {name} |-> group[n]]
    IN  IF DOMAIN index = {}
        THEN [tasks |-> registry, pending |-> index]
        ELSE IF basename \in DOMAIN index
        THEN [tasks   |-> Update(registry, Only(index[basename])),
              pending |-> Without(index, {basename})]
        ELSE IF hits # {}
        THEN [tasks   |-> Update(registry, Only(index[CHOOSE g \in hits : TRUE])),
              pending |-> index]
        ELSE [tasks |-> registry, pending |-> index]

\* _lazy_materialise assigning the promoted group to the registry, not updating
\* the registry with it
LazyMaterialiseReplace(registry, index, name) ==
    LET basename == Basename(name)
        hits == {g \in DOMAIN index : basename \in DOMAIN index[g]}
    IN  IF DOMAIN index = {}
        THEN [tasks |-> registry, pending |-> index]
        ELSE IF basename \in DOMAIN index
        THEN [tasks   |-> index[basename],
              pending |-> Without(index, {basename})]
        ELSE IF hits # {}
        THEN [tasks   |-> index[CHOOSE g \in hits : TRUE],
              pending |-> index]
        ELSE [tasks |-> registry, pending |-> index]

\* _lazy_materialise(control, name): the registry and the index after the call
LazyMaterialise(registry, index, name) ==
    LET basename == Basename(name)
        hits == {g \in DOMAIN index : basename \in DOMAIN index[g]}
    IN  IF DOMAIN index = {}
        THEN [tasks |-> registry, pending |-> index]
        ELSE IF basename \in DOMAIN index
        THEN [tasks   |-> Update(registry, index[basename]),
              pending |-> Without(index, {basename})]
        ELSE IF hits # {}
        THEN [tasks   |-> Update(registry, index[CHOOSE g \in hits : TRUE]),
              pending |-> index]
        ELSE [tasks |-> registry, pending |-> index]

\* ------------------------------------------------------------- traversal
\* _get_all_dependencies chaining the calc_dep names too
AllDependenciesWithCalc(task) == task.task_dep \o task.setup_tasks \o task.calc_dep

\* _get_all_dependencies(task): chain(task.task_dep, task.setup_tasks)
AllDependencies(task) == task.task_dep \o task.setup_tasks

\* the lookup calling _lazy_materialise whether or not name is in the registry
LookupAlways(registry, index, name) == LazyMaterialise(registry, index, name)

\* the registry and the index once name has been looked up (lines 91-94)
Lookup(registry, index, name) ==
    IF name \in DOMAIN registry
    THEN [tasks |-> registry, pending |-> index]
    ELSE LazyMaterialise(registry, index, name)

\* CollectStep without the test of line 101: every dependency is appended
CollectStepAppendAll(s) ==
    LET name == Head(s.queue)
        rest == Tail(s.queue)
        m == Lookup(s.tasks, s.pending, name)
        task == Get(m.tasks, name)
        seen == s.visited \cup {name}
    IN  IF name \in s.visited
        THEN [s EXCEPT !.queue = rest]
        ELSE IF task = None
        THEN [tasks |-> m.tasks, pending |-> m.pending, queue |-> rest,
              visited |-> seen, processed |-> s.processed]
        ELSE [tasks |-> m.tasks, pending |-> m.pending,
              queue |-> rest \o AllDependencies(task),
              visited |-> seen, processed |-> s.processed \cup {name}]

\* CollectStep without the guard of lines 87-88: a visited name is expanded again
CollectStepNoGuard(s) ==
    LET name == Head(s.queue)
        rest == Tail(s.queue)
        m == Lookup(s.tasks, s.pending, name)
        task == Get(m.tasks, name)
        seen == s.visited \cup {name}
        Fresh(dep) == dep \notin seen
    IN  IF task = None
        THEN [tasks |-> m.tasks, pending |-> m.pending, queue |-> rest,
              visited |-> seen, processed |-> s.processed]
        ELSE [tasks |-> m.tasks, pending |-> m.pending,
              queue |-> rest \o SelectSeq(AllDependencies(task), Fresh),
              visited |-> seen, processed |-> s.processed \cup {name}]

\* CollectStep leaving the loop at a name it can not resolve (break for continue)
CollectStepStopAtUnresolved(s) ==
    LET name == Head(s.queue)
        rest == Tail(s.queue)
        m == Lookup(s.tasks, s.pending, name)
        task == Get(m.tasks, name)
        seen == s.visited \cup {name}
        Fresh(dep) == dep \notin seen
    IN  IF name \in s.visited
        THEN [s EXCEPT !.queue = rest]
        ELSE IF task = None
        THEN [tasks |-> m.tasks, pending |-> m.pending, queue |-> <<>>,
              visited |-> seen, processed |-> s.processed]
        ELSE [tasks |-> m.tasks, pending |-> m.pending,
              queue |-> rest \o SelectSeq(AllDependencies(task), Fresh),
              visited |-> seen, processed |-> s.processed \cup {name}]

\* one iteration of the while loop of _collect_nodes on the state s
CollectStep(s) ==
    LET name == Head(s.queue)
        rest == Tail(s.queue)
        m == Lookup(s.tasks, s.pending, name)
        task == Get(m.tasks, name)
        seen == s.visited \cup {name}
        Fresh(dep) == dep \notin seen
    IN  IF name \in s.visited
        THEN [s EXCEPT !.queue = rest]
        ELSE IF task = None
        THEN [tasks |-> m.tasks, pending |-> m.pending, queue |-> rest,
              visited |-> seen, processed |-> s.processed]
        ELSE [tasks |-> m.tasks, pending |-> m.pending,
              queue |-> rest \o SelectSeq(AllDependencies(task), Fresh),
              visited |-> seen, processed |-> s.processed \cup {name}]

\* the traversal's part of the state
Walk == [tasks |-> tasks, pending |-> pending, queue |-> queue,
         visited |-> visited, processed |-> processed]

Step ==
    LET t == CollectStep(Walk)
    IN  /\ tasks' = t.tasks
        /\ pending' = t.pending
        /\ queue' = t.queue
        /\ visited' = t.visited
        /\ processed' = t.processed
        /\ UNCHANGED <<task_list, sel_tasks, def_order, pc, graph_entries, io>>

\* lines 80-83: selected = control.selected_tasks or []; queue = deque(selected)
CollectStart ==
    /\ pc = "start"
    /\ queue' = sel_tasks
    /\ visited' = {}
    /\ processed' = {}
    /\ pc' = "collect"
    /\ UNCHANGED <<task_list, sel_tasks, def_order, tasks, pending, graph_entries, io>>

\* lines 87-88: the dequeued name was visited before
SkipVisited ==
    /\ pc = "collect" /\ queue # <<>>
    /\ Head(queue) \in visited
    /\ Step

\* lines 90-102, the name is a key of the registry
VisitRegistered ==
    /\ pc = "collect" /\ queue # <<>>
    /\ Head(queue) \notin visited
    /\ Head(queue) \in DOMAIN tasks
    /\ Step

\* lines 92-102, the name is in the registry after _lazy_materialise
VisitMaterialised ==
    /\ pc = "collect" /\ queue # <<>>
    /\ Head(queue) \notin visited
    /\ Head(queue) \notin DOMAIN tasks
    /\ Head(queue) \in DOMAIN LazyMaterialise(tasks, pending, Head(queue)).tasks
    /\ Step

\* lines 92-97, the name is in the registry neither before nor after
DropUnresolved ==
    /\ pc = "collect" /\ queue # <<>>
    /\ Head(queue) \notin visited
    /\ Head(queue) \notin DOMAIN tasks
    /\ Head(queue) \notin DOMAIN LazyMaterialise(tasks, pending, Head(queue)).tasks
    /\ Step

\* ------------------------------------------------- ordering, serialisation
\* _ordered_names returning sorted(nodes), whatever the definition order
OrderedNamesLex(order, nodes) == SortedSet(nodes)

\* _ordered_names appending sorted(nodes), not sorted(nodes - set(ordered))
OrderedNamesAll(order, nodes) ==
    LET InNodes(n) == n \in nodes
    IN  SelectSeq(order, InNodes) \o SortedSet(nodes)

\* _ordered_names extending with the remaining names as one iteration of the
\* set yields them, without sorted()
OrderedNamesAsIterated(order, nodes) ==
    LET InNodes(n) == n \in nodes
        ordered == SelectSeq(order, InNodes)
    IN  ordered \o Reverse(SortedSet(nodes \ Range(ordered)))

\* _ordered_names(control, nodes)
OrderedNames(order, nodes) ==
    LET InNodes(n) == n \in nodes
        ordered == SelectSeq(order, InNodes)
    IN  ordered \o SortedSet(nodes \ Range(ordered))

\* the entry with the lists as authored, not sorted
EntryUnsorted(name, task) ==
    [name     |-> name,
     task_dep |-> task.task_dep,
     setup    |-> task.setup_tasks,
     calc_dep |-> task.calc_dep]

\* the entry of one task (lines 134-139)
Entry(name, task) ==
    [name     |-> name,
     task_dep |-> Sorted(task.task_dep),
     setup    |-> Sorted(task.setup_tasks),
     calc_dep |-> Sorted(task.calc_dep)]

\* _describe_graph(control, nodes)
DescribeGraph(registry, order, nodes) ==
    LET Known(n) == Get(registry, n) # None
        names == SelectSeq(OrderedNames(order, nodes), Known)
    IN  [i \in 1..Len(names) |-> Entry(names[i], registry[names[i]])]

\* nodes = self._collect_nodes(control) returns once the queue is empty;
\* graph_entries = self._describe_graph(control, nodes)
Describe ==
    /\ pc = "collect" /\ queue = <<>>
    /\ graph_entries' = DescribeGraph(tasks, def_order, processed)
    /\ pc' = "described"
    /\ UNCHANGED <<task_list, sel_tasks, def_order, tasks, pending, queue, visited,
                   processed, io>>

\* ------------------------------------------------------------ rendering
\* the characters of the dictionary keys and labels: 'name', 'task_dep',
\* 'setup', 'calc_dep'
Chars == [name     |-> <<110, 97, 109, 101>>,
          task_dep |-> <<116, 97, 115, 107, 95, 100, 101, 112>>,
          setup    |-> <<115, 101, 116, 117, 112>>,
          calc_dep |-> <<99, 97, 108, 99, 95, 100, 101, 112>>]

\* '\n'
NL == <<10>>

\* "  (no dependencies)\n"
NoDependencies == <<32, 32, 40, 110, 111, 32, 100, 101, 112, 101, 110, 100, 101, 110, 99, 105, 101, 115, 41, 10>>

\* n spaces
Spaces(n) == [i \in 1..n |-> 32]

RECURSIVE Join(_, _)
\* sep.join(values)
Join(sep, values) ==
    IF values = <<>> THEN <<>>
    ELSE IF Len(values) = 1 THEN values[1]
    ELSE values[1] \o sep \o Join(sep, Tail(values))

\* the writes of a loop, one after the other on the stream
Concat(writes) == Join(<<>>, writes)

\* Graph.DEPENDENCY_TYPES: (label, key)
DEPENDENCY_TYPES ==
    <<[label |-> Chars.task_dep, key |-> "task_dep"],
      [label |-> Chars.setup,    key |-> "setup"],
      [label |-> Chars.calc_dep, key |-> "calc_dep"]>>

\* the loop body of _print_text with has_dependencies set by the last category
\* alone
EntryTextLastCategory(entry) ==
    LET Labelled(i) ==
            LET values == entry[DEPENDENCY_TYPES[i].key]
            IN  IF values # <<>>
                THEN Spaces(2) \o DEPENDENCY_TYPES[i].label \o <<58, 32>>
                        \o Join(<<44, 32>>, values) \o NL
                ELSE <<>>
        has_dependencies == entry[DEPENDENCY_TYPES[Len(DEPENDENCY_TYPES)].key] # <<>>
    IN  entry.name \o NL
          \o Concat([i \in 1..Len(DEPENDENCY_TYPES) |-> Labelled(i)])
          \o (IF has_dependencies THEN <<>> ELSE NoDependencies)
          \o NL

\* what the body of the loop of _print_text writes for one entry (lines 146-158)
EntryText(entry) ==
    LET Labelled(i) ==
            LET values == entry[DEPENDENCY_TYPES[i].key]
            IN  IF values # <<>>
                THEN Spaces(2) \o DEPENDENCY_TYPES[i].label \o <<58, 32>>
                        \o Join(<<44, 32>>, values) \o NL
                ELSE <<>>
        has_dependencies ==
            \E i \in 1..Len(DEPENDENCY_TYPES) : entry[DEPENDENCY_TYPES[i].key] # <<>>
    IN  entry.name \o NL
          \o Concat([i \in 1..Len(DEPENDENCY_TYPES) |-> Labelled(i)])
          \o (IF has_dependencies THEN <<>> ELSE NoDependencies)
          \o NL

\* _print_text writing a marker line when there is no entry
PrintTextEmptyMarker(entries) ==
    IF entries = <<>> THEN NoDependencies
    ELSE Concat([i \in 1..Len(entries) |-> EntryText(entries[i])])

\* _print_text(graph_entries): the characters written
PrintText(entries) == Concat([i \in 1..Len(entries) |-> EntryText(entries[i])])

RECURSIVE JsonEscape(_)
\* the body of a JSON string: '"' and '\' are written with a '\' before them
JsonEscape(str) ==
    IF str = <<>> THEN <<>>
    ELSE (IF Head(str) \in {34, 92} THEN <<92, Head(str)>> ELSE <<Head(str)>>)
            \o JsonEscape(Tail(str))

\* json.dumps of a str
JsonString(str) == <<34>> \o JsonEscape(str) \o <<34>>

\* json.dumps(..., indent=2) of a container with the encoded items `items`,
\* opened by `open` and closed by `close`, at nesting depth `level`
JsonContainer(open, close, items, level) ==
    IF items = <<>> THEN <<open, close>>
    ELSE <<open>> \o NL \o Spaces(2 * (level + 1))
            \o Join(<<44>> \o NL \o Spaces(2 * (level + 1)), items)
            \o NL \o Spaces(2 * level) \o <<close>>

\* json.dumps(..., indent=2) of a list of names at nesting depth level
JsonNames(names, level) ==
    JsonContainer(91, 93, [i \in 1..Len(names) |-> JsonString(names[i])], level)

\* json.dumps(..., indent=2) of one entry at nesting depth level: the keys in
\* the order lines 134-139 insert them
JsonEntry(entry, level) ==
    JsonContainer(123, 125,
        <<JsonString(Chars.name) \o <<58, 32>> \o JsonString(entry.name),
          JsonString(Chars.task_dep) \o <<58, 32>> \o JsonNames(entry.task_dep, level + 1),
          JsonString(Chars.setup) \o <<58, 32>> \o JsonNames(entry.setup, level + 1),
          JsonString(Chars.calc_dep) \o <<58, 32>> \o JsonNames(entry.calc_dep, level + 1)>>,
        level)

\* json.dump(graph_entries, self.outstream, indent=2): the characters written
JsonDump(entries) ==
    JsonContainer(91, 93, [i \in 1..Len(entries) |-> JsonEntry(entries[i], 1)], 0)

\* lines 52-54 and 57: output == 'json'
WriteJson ==
    /\ pc = "described"
    /\ output' = "json"
    /\ outstream' = outstream \o JsonDump(graph_entries) \o NL
    /\ retval' = <<0>>
    /\ pc' = "returned"
    /\ UNCHANGED <<task_list, sel_tasks, def_order, tasks, pending, queue, visited,
                   processed, graph_entries>>

\* lines 55-57: any other value of output, 'text' being the default
WriteText ==
    /\ pc = "described"
    /\ output' = "text"
    /\ outstream' = outstream \o PrintText(graph_entries)
    /\ retval' = <<0>>
    /\ pc' = "returned"
    /\ UNCHANGED <<task_list, sel_tasks, def_order, tasks, pending, queue, visited,
                   processed, graph_entries>>

Next ==
    \/ TaskControlRaise
    \/ TaskControlProcess
    \/ PrepareLazyMaterialisation
    \/ CollectStart
    \/ SkipVisited
    \/ VisitRegistered
    \/ VisitMaterialised
    \/ DropUnresolved
    \/ Describe
    \/ WriteJson
    \/ WriteText

Spec == Init /\ [][Next]_vars

\* ------------------------------------- _ordered_names as a pure function
\* sequences over S without repetition
InjectiveSeqs(S) ==
    {q \in SeqsUpTo(S, Cardinality(S)) :
        \A i \in 1..Len(q) : \A j \in 1..Len(q) : i # j => q[i] # q[j]}

\* _describe_graph is about to be called: any set of result names, any
\* definition order without repetition (it may lack names, and hold others)
InitOrder ==
    /\ task_list = TaskList(Names, [n \in Names |-> NoParent], <<>>)
    /\ processed \in SUBSET Names
    /\ def_order \in InjectiveSeqs(Names)
    /\ sel_tasks = SortedSet(processed)
    /\ visited = processed
    /\ tasks = task_list
    /\ pending = <<>>
    /\ queue = <<>>
    /\ pc = "collect"
    /\ graph_entries = <<>>
    /\ output = "unread"
    /\ outstream = <<>>
    /\ retval = <<>>

SpecOrder == InitOrder /\ [][Describe]_vars

\* _execute run from its entry, or from the call of _describe_graph with any
\* result set and any definition order
InitRuns == Init \/ InitOrder

SpecRuns == InitRuns /\ [][Next]_vars

\* ---------------------------------------- _print_text as a pure function
\* the dependency names of the entries handed to _print_text
TextDeps == {nAB, nCD}

\* the sorted dependency lists _describe_graph can put in an entry
TextLists == {SortedSet(S) : S \in SUBSET TextDeps}

\* the number of dependency names in the entries es
DepCount(es) ==
    LET n[i \in 0..Len(es)] ==
            IF i = 0 THEN 0
            ELSE n[i - 1] + Len(es[i].task_dep) + Len(es[i].setup) + Len(es[i].calc_dep)
    IN  n[Len(es)]

\* the names of the entries handed to _print_text, in their order
TextNames ==
    {SubSeq(q, 1, k) : q \in {NameOrder, Reverse(NameOrder)},
                      k \in 0..(IF MaxEntries < Len(NameOrder) THEN MaxEntries
                                                               ELSE Len(NameOrder))}

\* _print_text is about to be called: _describe_graph has built up to
\* MaxEntries entries of distinct names, with MaxTextDeps dependency names at
\* most
InitText ==
    /\ \E names \in TextNames :
        \E lists \in [1..Len(names) ->
                        [task_dep : TextLists, setup_tasks : TextLists,
                         calc_dep : TextLists, subtask_of : {NoParent}]] :
            /\ tasks = [n \in Range(names) |->
                          lists[CHOOSE i \in 1..Len(names) : names[i] = n]]
            /\ def_order = names
    /\ processed = DOMAIN tasks
    /\ graph_entries = DescribeGraph(tasks, def_order, processed)
    /\ DepCount(graph_entries) <= MaxTextDeps
    /\ task_list = tasks
    /\ sel_tasks = def_order
    /\ visited = processed
    /\ pending = <<>>
    /\ queue = <<>>
    /\ pc = "described"
    /\ output = "unread"
    /\ outstream = <<>>
    /\ retval = <<>>

SpecText == InitText /\ [][WriteText]_vars

\* ------------------------------------------------------------ whole runs
RECURSIVE RunCollect(_)
\* the while loop of _collect_nodes run from the state s until the queue is empty
RunCollect(s) == IF s.queue = <<>> THEN s ELSE RunCollect(CollectStep(s))

\* the entries _execute builds for the task list `list` and the selection sel
Execute(list, sel) ==
    LET p == PrepareLazy(list)
        w == RunCollect([tasks |-> p.tasks, pending |-> p.pending, queue |-> sel,
                         visited |-> {}, processed |-> {}])
    IN  DescribeGraph(w.tasks, DefOrder(list), w.processed)

\* ------------------------------------------------- what the claims speak of
\* the names of the output entries
OutputNames == {graph_entries[i].name : i \in 1..Len(graph_entries)}

\* the task_dep and setup names the task list authors on name n
AuthoredDeps(n) ==
    IF n \in DOMAIN task_list
    THEN Range(task_list[n].task_dep) \cup Range(task_list[n].setup_tasks)
    ELSE {}

RECURSIVE ClosureFrom(_)
\* S and every name reachable from S over task_dep and setup edges
ClosureFrom(S) ==
    LET more == UNION {AuthoredDeps(n) : n \in S}
    IN  IF more \subseteq S THEN S ELSE ClosureFrom(S \cup more)

\* the roots and every name reachable from them over task_dep and setup edges
Reachable == ClosureFrom(Range(sel_tasks))

\* every task_dep and setup name is a task of the list
DepsDefined == \A n \in DOMAIN task_list : AuthoredDeps(n) \subseteq DOMAIN task_list

\* the generator subtasks of the task list
Subtasks == {n \in DOMAIN task_list : task_list[n].subtask_of # NoParent}

\* C1: when every task_dep and setup name is defined, the names _collect_nodes
\* returns, and the names of the output entries, are the roots and every name
\* reachable from them over task_dep and setup edges, no more and no less.
C1_ClosureCorrect ==
    (pc = "described" /\ DepsDefined) =>
        (processed = Reachable /\ OutputNames = Reachable)

\* C2: a generator subtask that was referenced (selected, or named as task_dep
\* or setup of a reached task, hence dequeued) is in the output, whatever stands
\* before the first ':' of its name.
C2_ReferencedSubtaskInOutput ==
    pc = "described" => (visited \cap Subtasks) \subseteq OutputNames

\* x and y are two members of one generator group
Siblings(x, y) ==
    /\ x # y
    /\ {x, y} \subseteq Subtasks
    /\ task_list[x].subtask_of = task_list[y].subtask_of

\* seq with two members of one generator group exchanged
SiblingSwaps(seq) ==
    {[seq EXCEPT ![i] = seq[j], ![j] = seq[i]] :
        <<i, j>> \in {p \in (1..Len(seq)) \X (1..Len(seq)) :
                        p[1] < p[2] /\ Siblings(seq[p[1]], seq[p[2]])}}

\* the runs that differ from this one only in the order in which two members
\* of one generator group are referenced
ReorderedRuns ==
    {[list |-> task_list, sel |-> s] : s \in SiblingSwaps(sel_tasks)}
    \cup UNION {{[list |-> [task_list EXCEPT ![n].task_dep = d], sel |-> sel_tasks] :
                    d \in SiblingSwaps(task_list[n].task_dep)} : n \in DOMAIN task_list}
    \cup UNION {{[list |-> [task_list EXCEPT ![n].setup_tasks = d], sel |-> sel_tasks] :
                    d \in SiblingSwaps(task_list[n].setup_tasks)} : n \in DOMAIN task_list}

\* C3: a run that references two members of one generator group in the other
\* order (as roots, or inside a task_dep or setup list) ends with the same set
\* of output names and the same three dependency lists in every entry.
C3_OrderIndependent ==
    pc = "described" =>
        \A r \in ReorderedRuns : Range(Execute(r.list, r.sel)) = Range(graph_entries)

RECURSIVE Unexpanded(_)
\* what the tasks in S can still add to the queue, and their own visits
Unexpanded(S) ==
    IF S = {} THEN 0
    ELSE LET n == CHOOSE x \in S : TRUE
         IN  1 + Len(AllDependencies(task_list[n])) + Unexpanded(S \ {n})

\* the work left to the loop of _collect_nodes: the names queued and whatever
\* the tasks not visited yet can add
WorkLeft == Len(queue) + Unexpanded(DOMAIN task_list \ visited)

\* C4: the traversal terminates, on cyclic graphs and with pending groups too:
\* every iteration of the loop lessens the work left (a natural number), and
\* the loop is left with the queue empty. A name is expanded
\* at most once: it is marked visited in one step only, and dequeuing it again
\* changes nothing but the queue.
C4_TerminatesExpandingOnce ==
    /\ [](pc = "described" => queue = <<>>)
    /\ [][(pc = "collect" /\ pc' = "collect") =>
            /\ WorkLeft' < WorkLeft
            /\ IF Head(queue) \in visited
               THEN /\ visited' = visited /\ processed' = processed
                    /\ tasks' = tasks /\ pending' = pending
                    /\ queue' = Tail(queue)
               ELSE /\ visited' = visited \cup {Head(queue)}
                    /\ processed' \in {processed, processed \cup {Head(queue)}}]_vars

\* a name on a task_dep/setup cycle
OnCycle(n) == n \in ClosureFrom(AuthoredDeps(n))

\* the traversal of a cyclic graph with a pending group has ended, after a
\* name was found visited when dequeued again
C4_Witness ==
    /\ pc = "described"
    /\ \E n \in processed : OnCycle(n)
    /\ Subtasks # {}

\* how often x stands in seq
Count(seq, x) == Cardinality({i \in 1..Len(seq) : seq[i] = x})

\* s and t hold the same names, each as often
SameNames(s, t) == \A x \in Range(s) \cup Range(t) : Count(s, x) = Count(t, x)

\* C5: the output has exactly one entry per name of the traversal result, for
\* names on a cycle too, and each entry carries the names the task was authored
\* with in task_dep, setup and calc_dep, none dropped and none added.
C5_OneEntryPerName ==
    pc = "described" =>
        /\ \A i \in 1..Len(graph_entries) : \A j \in 1..Len(graph_entries) :
              i # j => graph_entries[i].name # graph_entries[j].name
        /\ OutputNames = processed
        /\ \A i \in 1..Len(graph_entries) :
              LET e == graph_entries[i]
              IN  /\ e.name \in DOMAIN task_list
                  /\ SameNames(e.task_dep, task_list[e.name].task_dep)
                  /\ SameNames(e.setup, task_list[e.name].setup_tasks)
                  /\ SameNames(e.calc_dep, task_list[e.name].calc_dep)

\* two tasks of one cycle have been described
C5_Witness ==
    /\ pc = "described"
    /\ \E i \in 1..Len(graph_entries) : \E j \in 1..Len(graph_entries) :
          /\ i # j
          /\ graph_entries[j].name \in AuthoredDeps(graph_entries[i].name)
          /\ graph_entries[i].name \in AuthoredDeps(graph_entries[j].name)

\* C6: the traversal queues and looks up only the roots and names reachable
\* over task_dep and setup edges, so a task reachable through calc_dep edges
\* only is not in the output, while every entry lists its task's calc_dep names.
C6_CalcDepNotTraversed ==
    /\ Range(queue) \cup visited \cup processed \subseteq Reachable
    /\ pc = "described" =>
          \A i \in 1..Len(graph_entries) :
              LET e == graph_entries[i]
              IN  /\ e.name \in Reachable
                  /\ SameNames(e.calc_dep, task_list[e.name].calc_dep)

\* an output entry lists a calc_dep name that is a defined task, out of reach
\* over task_dep and setup edges and absent from the output
C6_Witness ==
    /\ pc = "described"
    /\ \E i \in 1..Len(graph_entries) : \E d \in Range(graph_entries[i].calc_dep) :
          /\ d \in DOMAIN task_list
          /\ d \notin Reachable
          /\ d \notin OutputNames

\* C7: dequeuing a name that is a key of the registry changes neither the
\* registry nor the index; so when every dequeued name was a plain task, the
\* groups are all still pending at the end and no subtask is in the output,
\* also when a dequeued name shares its prefix with a pending group.
C7_RegisteredNameNeverMaterialises ==
    /\ [][(pc = "collect" /\ pc' = "collect" /\ Head(queue) \in DOMAIN tasks) =>
            (tasks' = tasks /\ pending' = pending)]_vars
    /\ []((pc = "described" /\ visited \subseteq DOMAIN task_list \ Subtasks) =>
            /\ pending = PrepareLazy(task_list).pending
            /\ tasks = PrepareLazy(task_list).tasks
            /\ OutputNames \cap Subtasks = {})

\* a standalone task whose name has the prefix of a pending group is in the
\* output, and the group is still pending
C7_Witness ==
    /\ pc = "described"
    /\ \E n \in OutputNames :
          /\ Basename(n) # n
          /\ Basename(n) \in DOMAIN pending
          /\ Basename(n) \notin OutputNames

\* the names of the output entries, in their order
OutputSeq == [i \in 1..Len(graph_entries) |-> graph_entries[i].name]

\* where n stands in the definition order
DefPos(n) == CHOOSE k \in 1..Len(def_order) : def_order[k] = n

\* C8: the entries come in this order: the result names that occur in the
\* definition order first, as that order has them, then the result names it
\* lacks, in ascending lexicographic order; every result name has its place,
\* so the order of the entries is fixed by the result set and _def_order alone.
C8_DefinitionOrderThenLexicographic ==
    pc = "described" =>
        /\ Range(OutputSeq) = processed
        /\ \A i \in 1..Len(OutputSeq) : \A j \in 1..Len(OutputSeq) :
              i < j =>
                  LET x == OutputSeq[i]
                      y == OutputSeq[j]
                  IN  IF x \in Range(def_order) /\ y \in Range(def_order)
                      THEN DefPos(x) < DefPos(y)
                      ELSE IF y \in Range(def_order) THEN FALSE
                      ELSE IF x \in Range(def_order) THEN TRUE
                      ELSE StrLess(x, y)

\* the output holds two names of the definition order that it has in
\* descending lexicographic order, and after them two names it lacks
C8_Witness ==
    /\ pc = "described"
    /\ Len(OutputSeq) = 4
    /\ {OutputSeq[1], OutputSeq[2]} \subseteq Range(def_order)
    /\ StrLess(OutputSeq[2], OutputSeq[1])
    /\ {OutputSeq[3], OutputSeq[4]} \cap Range(def_order) = {}

\* seq is in ascending lexicographic order
Ascending(seq) == \A k \in 1..(Len(seq) - 1) : ~StrLess(seq[k + 1], seq[k])

\* C9: in every output entry each of task_dep, setup and calc_dep is in
\* ascending lexicographic order and holds exactly the names the task was
\* authored with, whatever order they were authored in.
C9_DependencyListsSorted ==
    pc = "described" =>
        \A i \in 1..Len(graph_entries) :
            LET e == graph_entries[i]
                t == task_list[e.name]
            IN  /\ Ascending(e.task_dep) /\ SameNames(e.task_dep, t.task_dep)
                /\ Ascending(e.setup) /\ SameNames(e.setup, t.setup_tasks)
                /\ Ascending(e.calc_dep) /\ SameNames(e.calc_dep, t.calc_dep)

\* an entry shows two names in the other order than they were authored in
C9_Witness ==
    /\ pc = "described"
    /\ \E i \in 1..Len(graph_entries) :
          LET e == graph_entries[i]
          IN  /\ Len(e.task_dep) = 2
              /\ e.task_dep[1] # e.task_dep[2]
              /\ e.task_dep # task_list[e.name].task_dep

\* the names dequeued and dropped: visited, not part of the result
Dropped == visited \ processed

RECURSIVE ClosureVia(_, _)
\* S and every name reachable from S over the task_dep and setup edges of the
\* tasks in P
ClosureVia(S, P) ==
    LET more == UNION {AuthoredDeps(n) : n \in S \cap P}
    IN  IF more \subseteq S THEN S ELSE ClosureVia(S \cup more, P)

\* C10: a dequeued name that is not in the registry, and is not there after
\* the one materialise attempt, is dropped silently: the step only pops it and
\* marks it visited, nothing is raised, the loop goes on with the rest of the
\* queue; at the end the dropped names have no entry and every other name
\* reached from the roots through the tasks of the result has one.
C10_UnresolvedDroppedSilently ==
    /\ [][(pc = "collect" /\ pc' = "collect" /\ Head(queue) \notin visited
              /\ Head(queue) \notin DOMAIN tasks') =>
            /\ queue' = Tail(queue)
            /\ processed' = processed
            /\ visited' = visited \cup {Head(queue)}]_vars
    /\ [][pc = "collect" => pc' \in {"collect", "described"}]_vars
    /\ [](pc = "described" =>
            /\ visited = ClosureVia(Range(sel_tasks), processed)
            /\ Dropped \cap OutputNames = {}
            /\ OutputNames = visited \ Dropped)

\* a root was dropped, and a task dequeued after it is in the output with a
\* dependency of its own
C10_Witness ==
    /\ pc = "described"
    /\ Len(sel_tasks) = 2
    /\ sel_tasks[1] \in Dropped
    /\ sel_tasks[2] \in OutputNames
    /\ AuthoredDeps(sel_tasks[2]) \cap OutputNames # {}

\* C11: a task_dep that names no task of the list makes the upstream
\* validation fail, and _execute lets the failure end the run: the index is
\* not built, the traversal does not start, nothing is written to the output
\* stream, nothing is returned, and no step follows the failure.
C11_UpstreamFailurePropagates ==
    /\ [](pc = "raised" =>
            /\ MissingDeps(task_list) # {}
            /\ tasks = <<>> /\ pending = <<>>
            /\ queue = <<>> /\ visited = {} /\ processed = {}
            /\ graph_entries = <<>>
            /\ outstream = <<>> /\ retval = <<>>)
    /\ [](MissingDeps(task_list) # {} => pc \in {"control", "raised"})
    /\ [][pc = "raised" => FALSE]_vars

\* the validation failed on a task list with a selected task whose task_dep
\* names no task
C11_Witness ==
    /\ pc = "raised"
    /\ \E n \in Range(sel_tasks) : Range(task_list[n].task_dep) \cap MissingDeps(task_list) # {}

\* C12: once the validation passed, _execute returns 0 and nothing else,
\* whatever the graph holds (cycles, calc_dep names with no task, names that were
\* dropped); with an empty selection or an empty task list there is no
\* entry, text mode writes no character at all and json mode writes "[]" and
\* a newline.
C12_EmptyIsSuccess ==
    /\ [](retval \in {<<>>, <<0>>})
    /\ [](retval = <<0>> <=> pc = "returned")
    /\ [][pc = "described" => (pc' = "returned" /\ retval' = <<0>>)]_vars
    /\ []((pc = "returned" /\ (sel_tasks = <<>> \/ task_list = <<>>)) =>
            /\ graph_entries = <<>>
            /\ output = "text" => outstream = <<>>
            /\ output = "json" => outstream = <<91, 93, 10>>)

\* _execute returned from a text run on the empty task list
C12_Witness ==
    /\ pc = "returned"
    /\ task_list = <<>>
    /\ sel_tasks = <<>>
    /\ output = "text"
    /\ retval = <<0>>

RECURSIVE Split(_, _)
\* text.split(sep): the pieces of text between the occurrences of sep
Split(text, sep) ==
    LET hits == {k \in 1..(Len(text) - Len(sep) + 1) :
                    SubSeq(text, k, k + Len(sep) - 1) = sep}
    IN  IF hits = {} THEN <<text>>
        ELSE LET k == CHOOSE m \in hits : \A h \in hits : m <= h
             IN  <<SubSeq(text, 1, k - 1)>>
                    \o Split(SubSeq(text, k + Len(sep), Len(text)), sep)

\* "  task_dep: ", "  setup: ", "  calc_dep: "
LabelPrefix == [task_dep |-> <<32, 32, 116, 97, 115, 107, 95, 100, 101, 112, 58, 32>>,
                setup    |-> <<32, 32, 115, 101, 116, 117, 112, 58, 32>>,
                calc_dep |-> <<32, 32, 99, 97, 108, 99, 95, 100, 101, 112, 58, 32>>]

\* "  (no dependencies)"
NoDependenciesLine == <<32, 32, 40, 110, 111, 32, 100, 101, 112, 101, 110, 100, 101, 110, 99, 105, 101, 115, 41>>

\* C13: in text mode the stream holds, for each entry in order, a block of
\* lines closed by one blank line: the name line, then one line for each
\* non-empty category in the order task_dep, setup, calc_dep, made of the
\* label and the names of the list joined by ', '; the '(no dependencies)'
\* line is there if and only if the three lists are empty. So exactly one
\* blank line stands between two consecutive entries (and one after the last).
C13_TextRendering ==
    (pc = "returned" /\ output = "text") =>
        LET blocks == Split(outstream, <<10, 10>>)
        IN  /\ Len(blocks) = Len(graph_entries) + 1
            /\ blocks[Len(blocks)] = <<>>
            /\ \A i \in 1..Len(graph_entries) :
                  LET e == graph_entries[i]
                      lines == Split(blocks[i], <<10>>)
                      NonEmpty(k) == e[k] # <<>>
                      cats == SelectSeq(<<"task_dep", "setup", "calc_dep">>, NonEmpty)
                  IN  /\ lines[1] = e.name
                      /\ Len(lines) = 1 + (IF cats = <<>> THEN 1 ELSE Len(cats))
                      /\ \A j \in 1..Len(cats) :
                            LET line == lines[j + 1]
                                pre == LabelPrefix[cats[j]]
                            IN  /\ SubSeq(line, 1, Len(pre)) = pre
                                /\ Split(SubSeq(line, Len(pre) + 1, Len(line)),
                                         <<44, 32>>) = e[cats[j]]
                      /\ NoDependenciesLine \in Range(Tail(lines)) <=> cats = <<>>

\* the text of three consecutive categories with two names in one of them,
\* followed by an entry without dependencies, has been written
C13_Witness ==
    /\ pc = "returned" /\ output = "text"
    /\ Len(graph_entries) = 2
    /\ graph_entries[1].task_dep # <<>>
    /\ graph_entries[1].setup # <<>>
    /\ Len(graph_entries[1].calc_dep) = 2
    /\ graph_entries[2].task_dep = <<>>
    /\ graph_entries[2].setup = <<>>
    /\ graph_entries[2].calc_dep = <<>>

\* the pending groups that hold the name n: where a scan of pending.items()
\* for n can stop
GroupsHolding(n) == {g \in DOMAIN pending : n \in DOMAIN pending[g]}

\* the orders in which an iteration can yield the members of the set S
Iterations(S) == {q \in InjectiveSeqs(S) : Len(q) = Cardinality(S)}

\* the result names that stand in the definition order, in that order
InDefOrder ==
    LET InProcessed(n) == n \in processed
    IN  SelectSeq(def_order, InProcessed)

\* C14: the entries are a function of the task list, the selection and the
\* definition order, whatever order sets and maps are iterated in: during the
\* traversal no name is held by two pending groups, so the scan of the
\* fallback can stop at one group only; the names after those of the definition order are the same for
\* every order in which the 'remaining' set is iterated and then sorted; and
\* the entries of a run are those the task list and the selection determine.
C14_Deterministic ==
    /\ pc \in {"start", "collect"} =>
          \A n \in Names : Cardinality(GroupsHolding(n)) <= 1
    /\ pc = "described" =>
          /\ \A q \in Iterations(processed \ Range(def_order)) :
                OutputSeq = InDefOrder \o Sorted(q)
          /\ def_order = DefOrder(task_list) =>
                graph_entries = Execute(task_list, sel_tasks)

\* the entries end with two names the definition order lacks, which the
\* 'remaining' set can yield in two orders
C14_Witness ==
    /\ pc = "described"
    /\ Cardinality(processed \ Range(def_order)) >= 2
    /\ Len(OutputSeq) > Len(InDefOrder) + 1

\* C15: from the end of the index build to the end of the traversal a step
\* changes, besides the queue and the visited and result sets, only the registry
\* and the index, and only by promotion: every name of the registry stays in it
\* with the same task, a name that enters it is a pending name with its pending
\* task, the groups left in the index are unchanged; the task list is not
\* touched, so every task of the registry is the task as loaded (no list
\* changed, no task created), and nothing is written.
C15_OnlyPromotionsChangeRegistry ==
    /\ [][(pc \in {"start", "collect"}) =>
            /\ task_list' = task_list /\ sel_tasks' = sel_tasks
            /\ def_order' = def_order /\ outstream' = outstream
            /\ DOMAIN tasks \subseteq DOMAIN tasks'
            /\ \A n \in DOMAIN tasks : tasks'[n] = tasks[n]
            /\ \A n \in DOMAIN tasks' \ DOMAIN tasks :
                  \E g \in DOMAIN pending :
                      n \in DOMAIN pending[g] /\ tasks'[n] = pending[g][n]
            /\ DOMAIN pending' \subseteq DOMAIN pending
            /\ \A g \in DOMAIN pending' : pending'[g] = pending[g]]_vars
    /\ [](pc \in {"start", "collect", "described", "returned"} =>
            \A n \in DOMAIN tasks : n \in DOMAIN task_list /\ tasks[n] = task_list[n])

\* the traversal has promoted a group into a registry that held other tasks
C15_Witness ==
    /\ pc = "collect"
    /\ DOMAIN PrepareLazy(task_list).tasks # {}
    /\ DOMAIN tasks # DOMAIN PrepareLazy(task_list).tasks

\* the names held by the pending groups
PendingNames == UNION {DOMAIN pending[g] : g \in DOMAIN pending}

\* C16: once the index is built, no name is at once a key of the registry and
\* a member of a pending group: a group promoted into the registry, by the
\* fast path or by the scan, is no longer in the index.
C16_RegistryPendingDisjoint ==
    pc \in {"start", "collect", "described", "returned"} =>
        DOMAIN tasks \cap PendingNames = {}

\* the step calls _lazy_materialise: the dequeued name is new and no key of
\* the registry
Materialising ==
    /\ pc = "collect" /\ pc' = "collect"
    /\ Head(queue) \notin visited
    /\ Head(queue) \notin DOMAIN tasks

\* C17: _lazy_materialise(name) promotes no group but the one that has name
\* as a member: a pending group without name stays in the index as it is, and
\* none of its members enters the registry; when no pending group has name,
\* the call changes neither the registry nor the index.
C17_OnlyTheGroupOfTheName ==
    [][Materialising =>
        /\ \A g \in DOMAIN pending :
              Head(queue) \notin DOMAIN pending[g] =>
                  /\ g \in DOMAIN pending'
                  /\ pending'[g] = pending[g]
                  /\ (DOMAIN pending[g] \ DOMAIN tasks) \cap DOMAIN tasks' = {}
        /\ GroupsHolding(Head(queue)) = {} => (tasks' = tasks /\ pending' = pending)]_vars

\* the step promotes the pending group g: it leaves the index, or one of its
\* members enters the registry
Promotes(g) ==
    \/ g \notin DOMAIN pending'
    \/ \E n \in DOMAIN pending[g] : n \notin DOMAIN tasks /\ n \in DOMAIN tasks'

\* C18: a group that _lazy_materialise promotes, by the fast path or by the
\* scan, has all its members in the registry afterwards; the promotion puts
\* no name into the result but the dequeued one, so at the end the output
\* holds only dequeued names, each a root or reachable over task_dep and
\* setup edges: a promoted sibling or the generator is there only if reached.
C18_WholeGroupPromoted ==
    /\ [][Materialising =>
            /\ \A g \in DOMAIN pending :
                  Promotes(g) => DOMAIN pending[g] \subseteq DOMAIN tasks'
            /\ processed' \subseteq processed \cup {Head(queue)}
            /\ Range(queue') \subseteq
                  Range(queue) \cup AuthoredDeps(Head(queue))]_vars
    /\ [](pc = "described" =>
            /\ OutputNames \subseteq visited
            /\ OutputNames \subseteq Reachable)

\* a group of two was promoted for one of its members; the sibling and the
\* generator are in the registry and not in the output
C18_Witness ==
    /\ pc = "described"
    /\ \E n \in OutputNames \cap Subtasks :
          \E m \in Subtasks \ {n} :
              /\ task_list[m].subtask_of = task_list[n].subtask_of
              /\ m \in DOMAIN tasks
              /\ m \notin OutputNames
              /\ task_list[n].subtask_of \notin OutputNames

\* C19 as claimed: at no point does the work queue hold the same name twice.
C19_QueueHoldsNoNameTwice ==
    pc = "collect" =>
        \A i \in 1..Len(queue) : \A j \in 1..Len(queue) :
            i # j => queue[i] # queue[j]

RECURSIVE AuthoredIn(_, _)
\* how often the tasks in S author the name n as task_dep or setup
AuthoredIn(S, n) ==
    IF S = {} THEN 0
    ELSE LET t == CHOOSE x \in S : TRUE
         IN  Count(AllDependencies(task_list[t]), n) + AuthoredIn(S \ {t}, n)

\* C19 as amended: a name enters the queue only while it is not visited, and
\* it is expanded at most once: a step that dequeues a visited name only pops
\* it, and no step adds an occurrence of a visited name. The queue can hold a
\* name several times, never more often than the name is authored as a root
\* or as a task_dep or setup name of a task of the result.
C19_QueuedWhileUnvisited ==
    /\ [][(pc = "collect" /\ pc' = "collect") =>
            /\ \A n \in visited' : Count(queue', n) <= Count(queue, n)
            /\ Head(queue) \in visited =>
                  (queue' = Tail(queue) /\ visited' = visited /\ processed' = processed)]_vars
    /\ [](pc = "collect" =>
            \A n \in Range(queue) :
                Count(queue, n) <= Count(sel_tasks, n) + AuthoredIn(processed, n))

\* one root was selected, and the queue holds twice a name authored twice as
\* task_dep or setup
C19_Witness ==
    /\ pc = "collect"
    /\ Len(sel_tasks) = 1
    /\ \E i \in 1..Len(queue) : \E j \in 1..Len(queue) : i # j /\ queue[i] = queue[j]

\* the members of group g in the index idx (a defaultdict: no key, no member)
Members(idx, g) == IF g \in DOMAIN idx THEN DOMAIN idx[g] ELSE {}

\* C20: _prepare_lazy_materialisation leaves in the registry exactly the
\* tasks without subtask_of marker, each unchanged; the group g of the index
\* holds exactly the tasks whose marker is g, each unchanged; so the registry
\* and the groups are a partition of the registry as it was: no task is lost
\* and none is in two places.
C20_PreparePartitions ==
    [][pc = "prepare" =>
        /\ DOMAIN tasks' = {n \in DOMAIN tasks : tasks[n].subtask_of = NoParent}
        /\ \A n \in DOMAIN tasks' : tasks'[n] = tasks[n]
        /\ NoParent \notin DOMAIN pending'
        /\ \A g \in (DOMAIN pending' \cup {tasks[n].subtask_of : n \in DOMAIN tasks}) \ {NoParent} :
              /\ Members(pending', g) = {n \in DOMAIN tasks : tasks[n].subtask_of = g}
              /\ \A n \in Members(pending', g) : pending'[g][n] = tasks[n]
        /\ DOMAIN tasks' \cup UNION {DOMAIN pending'[g] : g \in DOMAIN pending'} = DOMAIN tasks
        /\ \A g \in DOMAIN pending' :
              /\ DOMAIN pending'[g] \cap DOMAIN tasks' = {}
              /\ \A h \in DOMAIN pending' \ {g} :
                    DOMAIN pending'[g] \cap DOMAIN pending'[h] = {}]_vars

\* the index was built from a task list with two generator groups, one of
\* them keyed by another name than the prefix of its member, and plain tasks
C20_Witness ==
    /\ pc = "start"
    /\ Cardinality(DOMAIN pending) = 2
    /\ \E g \in DOMAIN pending : \E n \in DOMAIN pending[g] : Basename(n) # g
    /\ DOMAIN tasks # {}

====
